---- MODULE Spec2Model ----
(***************************************************************************)
(* Model of the autodiff package: the dual number class Num with its       *)
(* operator methods and the accessors val and d (autodiff/core.py), and    *)
(* the Newton solver with its Result record (autodiff/tools.py).           *)
(*                                                                         *)
(* Python numbers are modelled as exact rationals n/d in lowest terms      *)
(* (d > 0); np.inf is the extra value 1/0.  Exceptions are values of kind  *)
(* "raise".  Exponents of ** are integers throughout the model.            *)
(***************************************************************************)
EXTENDS Integers, Sequences, FiniteSets, TLC

(* ------------------------------ bounds --------------------------------- *)
\* operand values of the arithmetic specification are the integers -MaxVal..MaxVal
MaxVal == 2
\* largest derivative order passed to d
MaxOrder == 3
\* largest maxiter passed to newton
MaxIter == 5

(* ------------------------- Python plain numbers ------------------------ *)
Abs(i) == IF i < 0 THEN -i ELSE i

RECURSIVE Gcd(_, _)
Gcd(a, b) == IF b = 0 THEN a ELSE Gcd(b, a % b)

Rat(n, d) == [kind |-> "scalar", n |-> n, d |-> d]

\* lowest terms, positive denominator
Norm(n, d) ==
    LET g == Gcd(Abs(n), Abs(d))
        s == IF d < 0 THEN -1 ELSE 1
    IN  Rat((s * n) \div g, (s * d) \div g)

IntR(i) == Rat(i, 1)
Zero == IntR(0)
One == IntR(1)
MinusOne == IntR(-1)
\* np.inf
Inf == Rat(1, 0)

\* the element of a singleton: { e(v) : v \in {w} } computes w once
Only(S) == CHOOSE v \in S : TRUE

Raise(e) == [kind |-> "raise", exc |-> e]
IsRaise(v) == v.kind = "raise"

RAdd(a, b) == Norm(a.n * b.d + b.n * a.d, a.d * b.d)
RSub(a, b) == Norm(a.n * b.d - b.n * a.d, a.d * b.d)
RMul(a, b) == Norm(a.n * b.n, a.d * b.d)
RNeg(a) == Rat(-a.n, a.d)
RAbs(a) == Rat(Abs(a.n), a.d)
RLess(a, b) == a.n * b.d < b.n * a.d

\* Python's / on plain numbers: a zero divisor raises
RDiv(a, b) ==
    IF b.n = 0 THEN Raise("ZeroDivisionError")
    ELSE Norm(a.n * b.d, a.d * b.n)

RECURSIVE IPow(_, _)
IPow(a, k) ==
    IF k = 0 THEN One ELSE Only({RMul(a, p) : p \in {IPow(a, k - 1)}})

\* Python's ** on plain numbers with an integer exponent: zero to a
\* negative power raises
RPow(a, y) ==
    IF y.n >= 0 THEN IPow(a, y.n)
    ELSE IF a.n = 0 THEN Raise("ZeroDivisionError")
    ELSE IPow(Norm(a.d, a.n), -y.n)

(* ------------------------------ core.py -------------------------------- *)
Num(x, dx) == [kind |-> "Num", x |-> x, dx |-> dx]

\* Var(x): shorthand for Num(x, 1.0)
Var(x) == Num(x, One)

val(var) ==
    IF var.kind = "Num" THEN var.x
    ELSE IF var.kind = "scalar" THEN var
    ELSE Raise("ValueError")

\* the closure fprime returned by d for a callable
FPrime(var) == [kind |-> "fprime", var |-> var]

\* the dispatch of d on the kind of var, once n <= 1
dDispatch(var) ==
    IF var.kind = "Num" THEN var.dx
    ELSE IF var.kind = "callable" THEN FPrime(var)
    ELSE Zero

\* a d whose higher orders are the derivative of a constant
d_zero_order(var, n) == IF n > 1 THEN Zero ELSE dDispatch(var)

RECURSIVE d(_, _)
d(var, n) == IF n > 1 THEN d(var, n - 1) ELSE dDispatch(var)

__add__(self, other) ==
    LET x == val(self)  y == val(other)  dx == d(self, 1)  dy == d(other, 1)
    IN  Num(RAdd(x, y), RAdd(dx, dy))

__radd__(self, other) == __add__(self, other)

__sub__(self, other) ==
    LET x == val(self)  y == val(other)  dx == d(self, 1)  dy == d(other, 1)
    IN  Num(RSub(x, y), RSub(dx, dy))

\* a product whose derivative drops the x * dy term
__mul__no_dy(self, other) ==
    LET x == val(self)  y == val(other)  dx == d(self, 1)  dy == d(other, 1)
    IN  Num(RMul(x, y), RMul(dx, y))

__mul__(self, other) ==
    LET x == val(self)  y == val(other)  dx == d(self, 1)  dy == d(other, 1)
    IN  Num(RMul(x, y), RAdd(RMul(dx, y), RMul(x, dy)))

__rmul__(self, other) == __mul__(self, other)

\* -1*self: int.__mul__ does not know Num, so Num.__rmul__(self, -1) runs
__neg__(self) == __rmul__(self, MinusOne)

\* -self + other: -self is a Num, so Num.__add__ runs
__rsub__(self, other) == __add__(__neg__(self), other)

\* a division without the guard on a zero divisor
__truediv__unguarded(self, other) ==
    LET x == val(self)  y == val(other)  dx == d(self, 1)  dy == d(other, 1)
    IN  IF y = Zero THEN Raise("ZeroDivisionError")
        ELSE Num(RDiv(x, y), RDiv(RSub(RMul(dx, y), RMul(x, dy)), IPow(y, 2)))

__truediv__(self, other) ==
    LET x == val(self)  y == val(other)  dx == d(self, 1)  dy == d(other, 1)
    IN  IF y = Zero THEN Num(Inf, Inf)
        ELSE Num(RDiv(x, y), RDiv(RSub(RMul(dx, y), RMul(x, dy)), IPow(y, 2)))

__rtruediv__(self, other) == __truediv__(other, self)

\* dy is computed and unused; dx of self is unused as well
__pow__(self, other) ==
    LET x == val(self)  y == val(other)  dx == d(self, 1)  dy == d(other, 1)
        xy == RPow(x, y)
        x1 == RPow(x, RSub(y, One))
    IN  IF IsRaise(xy) THEN xy
        ELSE IF IsRaise(x1) THEN x1
        ELSE Num(xy, RMul(y, x1))

Operators == {"add", "sub", "mul", "div", "pow"}

\* the reflected methods class Num defines; there is no __rpow__
Reflected == {"add", "sub", "mul", "div"}

\* arithmetic of two plain numbers
PlainOp(op, a, b) ==
    CASE op = "add" -> RAdd(a, b)
      [] op = "sub" -> RSub(a, b)
      [] op = "mul" -> RMul(a, b)
      [] op = "div" -> RDiv(a, b)
      [] op = "pow" -> RPow(a, b)

NumOp(op, self, other) ==
    CASE op = "add" -> __add__(self, other)
      [] op = "sub" -> __sub__(self, other)
      [] op = "mul" -> __mul__(self, other)
      [] op = "div" -> __truediv__(self, other)
      [] op = "pow" -> __pow__(self, other)

NumROp(op, self, other) ==
    CASE op = "add" -> __radd__(self, other)
      [] op = "sub" -> __rsub__(self, other)
      [] op = "mul" -> __rmul__(self, other)
      [] op = "div" -> __rtruediv__(self, other)

\* a op b as Python dispatches it on the operator methods of class Num
BinOp(op, a, b) ==
    IF a.kind = "Num" THEN NumOp(op, a, b)
    ELSE IF b.kind = "Num"
         THEN IF op \in Reflected THEN NumROp(op, b, a) ELSE Raise("TypeError")
    ELSE PlainOp(op, a, b)

(* --------------------------- callables ---------------------------------- *)
\* bodies of lambda x: ..., built from constants, x and the five operators
X == [op |-> "x"]
K(i) == [op |-> "const", v |-> IntR(i)]
Bin(o, l, r) == [op |-> o, l |-> l, r |-> r]
Lambda(name, body) == [kind |-> "callable", name |-> name, body |-> body]

\* f = lambda x: 3 + x - x**3
F_doc == Lambda("3 + x - x**3", Bin("sub", Bin("add", K(3), X), Bin("pow", X, K(3))))
\* lambda x: 2*x - 4
F_lin == Lambda("2*x - 4", Bin("sub", Bin("mul", K(2), X), K(4)))
\* lambda x: x**2
F_sq == Lambda("x**2", Bin("pow", X, K(2)))
\* lambda x: x**3 - 2*x + 2
F_cyc == Lambda("x**3 - 2*x + 2",
                Bin("add", Bin("sub", Bin("pow", X, K(3)), Bin("mul", K(2), X)), K(2)))
\* lambda x: x**2 - 2*x + 2
F_flat == Lambda("x**2 - 2*x + 2",
                 Bin("add", Bin("sub", Bin("pow", X, K(2)), Bin("mul", K(2), X)), K(2)))
\* lambda x: 1/x - 2
F_inv == Lambda("1/x - 2", Bin("sub", Bin("div", K(1), X), K(2)))

\* the value of a lambda body at x, operand by operand, left to right
RECURSIVE Eval(_, _)
Eval(e, x) ==
    IF e.op = "x" THEN x
    ELSE IF e.op = "const" THEN e.v
    ELSE Only({ IF IsRaise(l) THEN l
                ELSE IF IsRaise(r) THEN r
                ELSE BinOp(e.op, l, r) : l \in {Eval(e.l, x)}, r \in {Eval(e.r, x)} })

\* fn(x) for a lambda, and for the closure fprime: var(Num(x, 1.0)).dx
Call(fn, x) ==
    IF fn.kind = "callable" THEN Eval(fn.body, x)
    ELSE Only({ IF IsRaise(r) THEN r
                ELSE IF r.kind = "Num" THEN r.dx
                ELSE Raise("AttributeError") : r \in {Eval(fn.var.body, Num(x, One))} })

(* ------------------------------ state ---------------------------------- *)
VARIABLES
    \* arithmetic: the operands, the order passed to d, the outcome
    lhs, rhs, order, out, opc,
    \* newton: the arguments
    fun, maxiter, atol,
    \* newton: the locals of each call (x0 is argument and local)
    x0, count, success, msg, nfev, f_x0, fprime,
    \* the nonlocal counter of the closure made by prepare
    cell,
    \* where each call of newton stands, the exception it raised, what it returned
    pc, exc, result,
    \* history: the values x0 has taken, and the iterate whose check passed
    iterates, passed

numVars == <<lhs, rhs, order, out, opc>>
newtonVars == <<fun, maxiter, atol, x0, count, success, msg, nfev, f_x0, fprime,
                cell, pc, exc, result, iterates, passed>>
vars == <<lhs, rhs, order, out, opc, fun, maxiter, atol, x0, count, success, msg,
          nfev, f_x0, fprime, cell, pc, exc, result, iterates, passed>>

\* two calls of newton on the same fun, x0 and maxiter, each with its own atol
Runs == {1, 2}

Unbound == <<>>
Bound(v) == <<v>>

(* ------------------------- arithmetic operands -------------------------- *)
Values == {IntR(i) : i \in -MaxVal..MaxVal}
Nums == {Num(x, dx) : x \in Values, dx \in Values}
Operands == Values \cup Nums
Callables == {F_doc, F_lin, F_sq, F_cyc, F_flat, F_inv}

NoOut == [op |-> "none", res |-> Zero]

NewtonIdle ==
    /\ fun = F_lin
    /\ maxiter = 0
    /\ atol = [r \in Runs |-> One]
    /\ x0 = [r \in Runs |-> Zero]
    /\ count = [r \in Runs |-> 0]
    /\ success = [r \in Runs |-> FALSE]
    /\ msg = [r \in Runs |-> "unbound"]
    /\ nfev = [r \in Runs |-> Unbound]
    /\ f_x0 = [r \in Runs |-> Unbound]
    /\ fprime = [r \in Runs |-> Unbound]
    /\ cell = [r \in Runs |-> 0]
    /\ pc = [r \in Runs |-> "idle"]
    /\ exc = [r \in Runs |-> "none"]
    /\ result = [r \in Runs |-> Unbound]
    /\ iterates = [r \in Runs |-> <<>>]
    /\ passed = [r \in Runs |-> Unbound]

NumIdle ==
    /\ lhs = Zero
    /\ rhs = Zero
    /\ order = 1
    /\ out = NoOut
    /\ opc = "idle"

\* two operands and an order, nothing applied yet
InitNum ==
    /\ lhs \in Operands \cup Callables
    /\ rhs \in Operands
    /\ order \in 1..MaxOrder
    /\ out = NoOut
    /\ opc = "ready"
    /\ NewtonIdle

\* a op b where at least one operand is a Num
Apply(op) ==
    /\ opc = "ready"
    /\ lhs.kind # "callable"
    /\ lhs.kind = "Num" \/ rhs.kind = "Num"
    /\ out' = [op |-> op, res |-> BinOp(op, lhs, rhs)]
    /\ opc' = "done"
    /\ UNCHANGED <<lhs, rhs, order>>
    /\ UNCHANGED newtonVars

DoAdd == Apply("add")
DoSub == Apply("sub")
DoMul == Apply("mul")
DoDiv == Apply("div")
DoPow == Apply("pow")

\* d(lhs, order); for a callable the returned function is applied to rhs
DoD ==
    /\ opc = "ready"
    /\ lhs.kind = "callable" => rhs.kind = "scalar"
    /\ out' = [op |-> "d",
               res |-> IF lhs.kind = "callable" THEN Call(d(lhs, order), rhs)
                       ELSE d(lhs, order)]
    /\ opc' = "done"
    /\ UNCHANGED <<lhs, rhs, order>>
    /\ UNCHANGED newtonVars

NextNum == DoAdd \/ DoSub \/ DoMul \/ DoDiv \/ DoPow \/ DoD

SpecNum == InitNum /\ [][NextNum]_vars

(* ------------------------------ tools.py ------------------------------- *)
\* the tolerances and the (fun, x0) pairs newton is called with
Atols == {Rat(1, 100), Rat(1, 2), One, IntR(3)}
Case(f, x) == [f |-> f, x |-> IntR(x)]
Cases == {Case(F_lin, x) : x \in {-1, 0, 1, 2}}
         \cup {Case(F_sq, x) : x \in {-1, 0, 1, 2}}
         \cup {Case(F_cyc, x) : x \in {0, 1}}
         \cup {Case(F_flat, x) : x \in {0, 1, 2}}
         \cup {Case(F_inv, x) : x \in {0, 1}}

MsgConverged == "converged."
MsgMaxIter == "max iterations reached."

\* wrapped(x) of prepare: the counter after the call, and fun(x)
wrapped(n, f, x) == [nfev |-> n + 1, val |-> Call(f, x)]

\* abs(f_x0) >= atol
Converged_rev(fx, tol) == RLess(tol, RAbs(fx))

\* abs(f_x0) <= atol
Converged_le(fx, tol) == ~RLess(tol, RAbs(fx))

\* abs(f_x0) < atol
Converged(fx, tol) == RLess(RAbs(fx), tol)

\* x0 + (-f_x0 / _fprime(x0)): the value x0 += ... assigns, or what it raises
NewtonStep(x, fx, fp) ==
    Only({ IF IsRaise(dfx) THEN dfx
           ELSE Only({ IF IsRaise(q) THEN q ELSE RAdd(x, q) : q \in {RDiv(RNeg(fx), dfx)} })
           : dfx \in {Call(fp, x)} })

\* a Result whose nfev is the raw counter
Result_raw(m, s, c, n, x) ==
    [message |-> m, success |-> s, nit |-> c, nfev |-> n, x |-> x]

\* Result(message=msg, success=success, nit=count, nfev=2*nfev, x=x0)
Result(m, s, c, n, x) ==
    [message |-> m, success |-> s, nit |-> c, nfev |-> 2 * n, x |-> x]

\* newton(fun, x0, atol, maxiter) has been called twice; no line has run
Init ==
    /\ \E c \in Cases :
        /\ fun = c.f
        /\ x0 = [r \in Runs |-> c.x]
        /\ iterates = [r \in Runs |-> <<c.x>>]
    /\ maxiter \in 0..MaxIter
    /\ atol \in [Runs -> Atols]
    /\ count = [r \in Runs |-> 0]
    /\ success = [r \in Runs |-> FALSE]
    /\ msg = [r \in Runs |-> "unbound"]
    /\ nfev = [r \in Runs |-> Unbound]
    /\ f_x0 = [r \in Runs |-> Unbound]
    /\ fprime = [r \in Runs |-> Unbound]
    /\ cell = [r \in Runs |-> 0]
    /\ pc = [r \in Runs |-> "start"]
    /\ exc = [r \in Runs |-> "none"]
    /\ result = [r \in Runs |-> Unbound]
    /\ passed = [r \in Runs |-> Unbound]
    /\ NumIdle

\* the calls are made one after the other: a call runs when the ones
\* before it have returned or raised
Turn(r) == \A q \in Runs : q < r => pc[q] \in {"done", "raised"}

\* count = 0; success = False; _fprime = d(fun); _fun = prepare(fun)
Enter(r) ==
    /\ Turn(r)
    /\ pc[r] = "start"
    /\ count' = [count EXCEPT ![r] = 0]
    /\ success' = [success EXCEPT ![r] = FALSE]
    /\ fprime' = [fprime EXCEPT ![r] = Bound(d(fun, 1))]
    /\ cell' = [cell EXCEPT ![r] = 0]
    /\ pc' = [pc EXCEPT ![r] = "while"]
    /\ UNCHANGED <<fun, maxiter, atol, x0, msg, nfev, f_x0, exc, result, iterates, passed>>
    /\ UNCHANGED numVars

\* while count < maxiter
WhileTest(r) ==
    /\ Turn(r)
    /\ pc[r] = "while"
    /\ pc' = [pc EXCEPT ![r] = IF count[r] < maxiter THEN "call" ELSE "else"]
    /\ UNCHANGED <<fun, maxiter, atol, x0, count, success, msg, nfev, f_x0, fprime,
                   cell, exc, result, iterates, passed>>
    /\ UNCHANGED numVars

\* nfev, f_x0 = _fun(x0)
CallFun(r) ==
    /\ Turn(r)
    /\ pc[r] = "call"
    /\ \E w \in {wrapped(cell[r], fun, x0[r])} :
           /\ cell' = [cell EXCEPT ![r] = w.nfev]
           /\ IF IsRaise(w.val)
              THEN /\ pc' = [pc EXCEPT ![r] = "raised"]
                   /\ exc' = [exc EXCEPT ![r] = w.val.exc]
                   /\ UNCHANGED <<nfev, f_x0>>
              ELSE /\ pc' = [pc EXCEPT ![r] = "test"]
                   /\ nfev' = [nfev EXCEPT ![r] = Bound(w.nfev)]
                   /\ f_x0' = [f_x0 EXCEPT ![r] = Bound(w.val)]
                   /\ UNCHANGED exc
    /\ UNCHANGED <<fun, maxiter, atol, x0, count, success, msg, fprime, result,
                   iterates, passed>>
    /\ UNCHANGED numVars

\* if abs(f_x0) < atol: msg = "converged."; success = True; break
Converge(r) ==
    /\ Turn(r)
    /\ pc[r] = "test"
    /\ Converged(f_x0[r][1], atol[r])
    /\ msg' = [msg EXCEPT ![r] = MsgConverged]
    /\ success' = [success EXCEPT ![r] = TRUE]
    /\ passed' = [passed EXCEPT ![r] = Bound(x0[r])]
    /\ pc' = [pc EXCEPT ![r] = "return"]
    /\ UNCHANGED <<fun, maxiter, atol, x0, count, nfev, f_x0, fprime, cell, exc,
                   result, iterates>>
    /\ UNCHANGED numVars

\* count += 1; x0 += -f_x0 / _fprime(x0)
Update(r) ==
    /\ Turn(r)
    /\ pc[r] = "test"
    /\ ~Converged(f_x0[r][1], atol[r])
    /\ count' = [count EXCEPT ![r] = count[r] + 1]
    /\ \E x \in {NewtonStep(x0[r], f_x0[r][1], fprime[r][1])} :
           IF IsRaise(x)
           THEN /\ pc' = [pc EXCEPT ![r] = "raised"]
                /\ exc' = [exc EXCEPT ![r] = x.exc]
                /\ UNCHANGED <<x0, iterates>>
           ELSE /\ pc' = [pc EXCEPT ![r] = "while"]
                /\ x0' = [x0 EXCEPT ![r] = x]
                /\ iterates' = [iterates EXCEPT ![r] = Append(iterates[r], x)]
                /\ UNCHANGED exc
    /\ UNCHANGED <<fun, maxiter, atol, success, msg, nfev, f_x0, fprime, cell,
                   result, passed>>
    /\ UNCHANGED numVars

\* else: msg = "max iterations reached."
Else(r) ==
    /\ Turn(r)
    /\ pc[r] = "else"
    /\ msg' = [msg EXCEPT ![r] = MsgMaxIter]
    /\ pc' = [pc EXCEPT ![r] = "return"]
    /\ UNCHANGED <<fun, maxiter, atol, x0, count, success, nfev, f_x0, fprime, cell,
                   exc, result, iterates, passed>>
    /\ UNCHANGED numVars

\* return Result(...): reading the local nfev before any assignment raises
Return(r) ==
    /\ Turn(r)
    /\ pc[r] = "return"
    /\ IF nfev[r] = Unbound
       THEN /\ pc' = [pc EXCEPT ![r] = "raised"]
            /\ exc' = [exc EXCEPT ![r] = "UnboundLocalError"]
            /\ UNCHANGED result
       ELSE /\ pc' = [pc EXCEPT ![r] = "done"]
            /\ result' = [result EXCEPT ![r] =
                   Bound(Result(msg[r], success[r], count[r], nfev[r][1], x0[r]))]
            /\ UNCHANGED exc
    /\ UNCHANGED <<fun, maxiter, atol, x0, count, success, msg, nfev, f_x0, fprime,
                   cell, iterates, passed>>
    /\ UNCHANGED numVars

Next ==
    \E r \in Runs :
        \/ Enter(r)
        \/ WhileTest(r)
        \/ CallFun(r)
        \/ Converge(r)
        \/ Update(r)
        \/ Else(r)
        \/ Return(r)

Spec == Init /\ [][Next]_vars

(* ----------------------- properties: core.py --------------------------- *)
\* the derivative an operand carries: dx of a Num, 0 of a plain scalar
DxOf(v) == IF v.kind = "Num" THEN v.dx ELSE Zero
Applied(op) == opc = "done" /\ out.op = op

\* C1: a ** y with a = (x, dx), any dx, and a constant exponent y is the Num
\* with value x^y and derivative y * x^(y-1) * dx (where x^(y-1) is defined).
C1_PowerRuleChain ==
    (Applied("pow") /\ lhs.kind = "Num" /\ rhs.kind = "scalar"
        /\ (lhs.x # Zero \/ rhs.n >= 1))
    => out.res = Num(RPow(lhs.x, rhs),
                     RMul(RMul(rhs, RPow(lhs.x, RSub(rhs, One))), lhs.dx))

\* C2: a * b, one operand a Num and the other a Num or a plain scalar, in
\* either order, is the Num (x*y, dx*y + x*dy), and a*b equals b*a.
C2_ProductRule ==
    Applied("mul")
    => /\ out.res.kind = "Num"
       /\ out.res.x = RMul(val(lhs), val(rhs))
       /\ out.res.dx = RAdd(RMul(DxOf(lhs), val(rhs)), RMul(val(lhs), DxOf(rhs)))
       /\ d(out.res, 1) = RAdd(RMul(d(lhs, 1), val(rhs)), RMul(val(lhs), d(rhs, 1)))
       /\ out.res = BinOp("mul", rhs, lhs)

C2_Witness ==
    /\ Applied("mul")
    /\ lhs.kind = "scalar" /\ rhs.kind = "Num"
    /\ lhs = IntR(2) /\ rhs = Num(IntR(-1), IntR(2))
    /\ out.res = Num(IntR(-2), IntR(4))

\* C3: a / b with val(b) = 0 is Num(inf, inf) for every numerator, never an
\* exception; with val(b) = y # 0 it is (x/y, (dx*y - x*dy)/y^2).
C3_Division ==
    Applied("div")
    => /\ out.res.kind = "Num"
       /\ val(rhs) = Zero => out.res = Num(Inf, Inf)
       /\ val(rhs) # Zero =>
            /\ RMul(out.res.x, val(rhs)) = val(lhs)
            /\ RMul(out.res.dx, RMul(val(rhs), val(rhs)))
                 = RSub(RMul(DxOf(lhs), val(rhs)), RMul(val(lhs), DxOf(rhs)))

C3_Witness ==
    /\ Applied("div")
    /\ lhs.kind = "scalar" /\ lhs # Zero
    /\ rhs.kind = "Num" /\ rhs.x = Zero /\ rhs.dx # Zero
    /\ out.res = Num(Inf, Inf)

\* C4: every operator of {add, sub, mul, div, pow} applied to operands of
\* which at least one is a Num, in either position, yields a Num.
C4_Polymorphic ==
    (opc = "done" /\ out.op \in Operators) => out.res.kind = "Num"

Returned(r) == pc[r] = "done"
Terminated(r) == pc[r] \in {"done", "raised"}
Res(r) == result[r][1]
Last(q) == q[Len(q)]

\* C6: when the loop runs out (maxiter >= 0, maxiter = 0 included) newton does
\* not raise; it returns success False, the iteration-limit message,
\* nit = maxiter and nfev = 2 * maxiter.
C6_IterationLimit ==
    \A r \in Runs :
        (Terminated(r) /\ msg[r] = MsgMaxIter)
        => /\ Returned(r)
           /\ Res(r).success = FALSE
           /\ Res(r).message = MsgMaxIter
           /\ Res(r).nit = maxiter
           /\ Res(r).nfev = 2 * maxiter

\* C7: when the check fails at an iterate where fprime is 0, the update is
\* performed without raising and newton still returns a Result.
C7_ZeroDerivativeNoRaise ==
    \A r \in Runs :
        (/\ f_x0[r] # Unbound
         /\ ~Converged(f_x0[r][1], atol[r])
         /\ Call(fprime[r][1], x0[r]) = Zero)
        => pc[r] # "raised"

\* C8: the counter of prepare goes up once per loop iteration, by the call of
\* the wrapped fun only; the reported nfev is twice the counter:
\* 2 * (nit + 1) on convergence, 2 * nit when maxiter is exhausted.
C8_NfevConvention ==
    \A r \in Runs :
        /\ pc[r] \in {"while", "call", "else"} => cell[r] = count[r]
        /\ pc[r] = "test" => cell[r] = count[r] + 1
        /\ (nfev[r] # Unbound /\ pc[r] # "raised") => nfev[r][1] = cell[r]
        /\ Returned(r) =>
            /\ Res(r).nfev = 2 * cell[r]
            /\ Res(r).success => Res(r).nfev = 2 * (Res(r).nit + 1)
            /\ ~Res(r).success => Res(r).nfev = 2 * Res(r).nit

C8_Witness ==
    /\ Returned(1) /\ Res(1).success /\ Res(1).nit = 2 /\ Res(1).nfev = 6
    /\ Returned(2) /\ ~Res(2).success /\ Res(2).nit = 3 /\ Res(2).nfev = 6

IsPrefix(p, q) == Len(p) <= Len(q) /\ \A i \in 1..Len(p) : p[i] = q[i]

\* C9: for the same fun, x0 and maxiter and atol1 <= atol2, the iterates do
\* not depend on atol, the run with atol1 reports a nit no smaller than the
\* run with atol2, and if the atol1 run converges the atol2 run does too.
C9_ToleranceMonotone ==
    \A r, q \in Runs :
        ~RLess(atol[q], atol[r])
        => /\ IsPrefix(iterates[r], iterates[q]) \/ IsPrefix(iterates[q], iterates[r])
           /\ (Returned(r) /\ Returned(q)) => Res(r).nit >= Res(q).nit
           /\ (Returned(r) /\ Res(r).success /\ Terminated(q))
                => Returned(q) /\ Res(q).success

C9_Witness ==
    /\ RLess(atol[1], atol[2])
    /\ Returned(1) /\ Returned(2)
    /\ Res(1).success /\ Res(2).success
    /\ Res(1).nit = 2 /\ Res(2).nit = 1

\* C10: when newton returns success True the message is "converged.", x is
\* the iterate whose check passed, |f(x)| < atol, nit is the number of updates
\* made before that check, nit < maxiter, and x0 is not updated afterwards.
C10_ConvergenceOutcome ==
    \A r \in Runs :
        /\ success[r] =>
            /\ pc[r] \in {"return", "done"}
            /\ passed[r] = Bound(x0[r])
            /\ Last(iterates[r]) = x0[r]
        /\ (Returned(r) /\ Res(r).success) =>
            /\ Res(r).message = MsgConverged
            /\ passed[r] = Bound(Res(r).x)
            /\ RLess(RAbs(Call(fun, Res(r).x)), atol[r])
            /\ Res(r).nit = Len(iterates[r]) - 1
            /\ Res(r).nit < maxiter

C10_Witness ==
    /\ Returned(1) /\ Res(1).success
    /\ fun = F_sq /\ atol[1] = Rat(1, 100)
    /\ Res(1).nit = 4 /\ Res(1).x = Rat(1, 16)

====
